---- MODULE Spec2Model ----
(***************************************************************************)
(* Dataflow actor runtime of dos-actors: the rate-aware step loop of       *)
(* Actor::run (src/src/actor.rs), the channel operations of Input::recv    *)
(* and Output::send (src/src/io.rs) and the task wiring of the examples    *)
(* and integration tests (src/examples, src/actors/tests).                 *)
(***************************************************************************)
EXTENDS Integers, Sequences, FiniteSets, TLC

(* ---------------------------------------------------------------------- *)
(* Bounds                                                                  *)
(* ---------------------------------------------------------------------- *)
\* largest number of payloads (Signal::n_step) a finite initiator produces
\* before its produce returns None
NStep == 4
\* capacity of a bounded channel
Cap == 1
\* rate ratio of the decimating / upsampling actors (M1_RATE in the tests)
Ratio == 3
\* largest number of outputs an actor declares without connecting them
MaxOrphans == 1
\* calls of collect / distribute made outside run()
MaxCalls == 2
\* reads of the Arrow logger, its entries and its decimation factor
MaxReads == 5
MaxEntry == 2
MaxDecimation == 2
\* the wind loads: width of usize, samples of the data, upsampling rates,
\* values given to stop_after, calls of update
UsizeBits == 4
NSamples == 3
MaxRate == 2
MaxStop == 3
MaxUpdates == 8

(* ---------------------------------------------------------------------- *)
(* Graphs: the wirings built by the examples and the integration tests     *)
(* ---------------------------------------------------------------------- *)
\* an edge is one (sender, receiver) pair: output `out` of actor `src`
\* feeds input `inp` of actor `dst`; `boot` is the output's bootstrap flag,
\* `fb` marks the edges the tests declare .unbounded()
Edge(s, o, d, i, b, f) ==
    [src |-> s, out |-> o, dst |-> d, inp |-> i, boot |-> b, fb |-> f]

\* examples/simple.rs: source -> filter -> sink, source -> sink
ChainGraph ==
    [rates |-> [source |-> <<0, 1>>, filter |-> <<1, 1>>, sink |-> <<1, 0>>],
     kind  |-> [source |-> "signal", filter |-> "sampler", sink |-> "logging"],
     edges |-> << Edge("source", 1, "filter", 1, FALSE, FALSE),
                  Edge("filter", 1, "sink", 1, FALSE, FALSE),
                  Edge("source", 2, "sink", 2, FALSE, FALSE) >>]

\* examples/simple-feedback.rs: compensator <-> integrator feedback loop
FeedbackGraph ==
    [rates |-> [source |-> <<0, 1>>, filter |-> <<1, 1>>,
                compensator |-> <<1, 1>>, integrator |-> <<1, 1>>,
                sink |-> <<1, 0>>],
     kind  |-> [source |-> "signal", filter |-> "sampler",
                compensator |-> "compensator", integrator |-> "integrator",
                sink |-> "logging"],
     edges |-> << Edge("source", 1, "filter", 1, FALSE, FALSE),
                  Edge("filter", 1, "compensator", 1, FALSE, FALSE),
                  Edge("compensator", 1, "integrator", 1, FALSE, FALSE),
                  Edge("integrator", 1, "compensator", 2, TRUE, TRUE),
                  Edge("compensator", 2, "sink", 1, FALSE, FALSE),
                  Edge("source", 2, "sink", 2, FALSE, FALSE) >>]

\* tests/zero_mount-m1.rs, mount loop: set point -> mount <-> fem -> sink,
\* the bootstrapped fem output is multiplexed to the mount and to the sink
MountGraph ==
    [rates |-> [setpoint |-> <<0, 1>>, mount |-> <<1, 1>>,
                fem |-> <<1, 1>>, sink |-> <<1, 0>>],
     kind  |-> [setpoint |-> "signal", mount |-> "sampler",
                fem |-> "sampler", sink |-> "logging"],
     edges |-> << Edge("setpoint", 1, "mount", 1, FALSE, FALSE),
                  Edge("mount", 1, "fem", 1, FALSE, FALSE),
                  Edge("fem", 1, "mount", 2, TRUE, TRUE),
                  Edge("fem", 1, "sink", 1, TRUE, TRUE),
                  Edge("fem", 2, "sink", 2, FALSE, TRUE) >>]

\* crate docs "Sampling rates": source -> 1:k decimator -> k:1 upsampler -> sink
RateGraph ==
    [rates |-> [source |-> <<0, 1>>, loadcells |-> <<1, Ratio>>,
                segment |-> <<Ratio, 1>>, sink |-> <<1, 0>>],
     kind  |-> [source |-> "signal", loadcells |-> "sampler",
                segment |-> "sampler", sink |-> "logging"],
     edges |-> << Edge("source", 1, "loadcells", 1, FALSE, FALSE),
                  Edge("loadcells", 1, "segment", 1, FALSE, FALSE),
                  Edge("segment", 1, "sink", 1, FALSE, FALSE) >>]

\* tests/zero_mount-m1.rs, M1 loop: the hardpoints command is multiplexed
\* to the fem and to the load cells; fem -> load cells (1:k) -> segment
\* actuators (k:1) -> fem, both feedback outputs bootstrapped
M1Graph ==
    [rates |-> [hardpoints |-> <<0, 1>>, fem |-> <<1, 1>>,
                loadcells |-> <<1, Ratio>>, segment |-> <<Ratio, 1>>,
                sink |-> <<1, 0>>],
     kind  |-> [hardpoints |-> "signal", fem |-> "sampler",
                loadcells |-> "sampler", segment |-> "sampler",
                sink |-> "logging"],
     edges |-> << Edge("hardpoints", 1, "fem", 1, FALSE, FALSE),
                  Edge("hardpoints", 1, "loadcells", 1, FALSE, FALSE),
                  Edge("fem", 1, "loadcells", 2, TRUE, TRUE),
                  Edge("loadcells", 1, "segment", 1, FALSE, FALSE),
                  Edge("segment", 1, "fem", 2, TRUE, TRUE),
                  Edge("fem", 2, "sink", 1, FALSE, TRUE) >>]

\* tests/zero_mount-m1-m2.rs, several initiators: two set points, each with
\* its own n_step, feed the sink, one directly, the other through an output
\* multiplexed to the sink and to a filter that feeds the sink in turn
JoinGraph ==
    [rates |-> [source |-> <<0, 1>>, setpoint |-> <<0, 1>>,
                filter |-> <<1, 1>>, sink |-> <<1, 0>>],
     kind  |-> [source |-> "signal", setpoint |-> "signal",
                filter |-> "sampler", sink |-> "logging"],
     edges |-> << Edge("source", 1, "sink", 1, FALSE, FALSE),
                  Edge("setpoint", 1, "sink", 2, FALSE, FALSE),
                  Edge("setpoint", 1, "filter", 1, FALSE, FALSE),
                  Edge("filter", 1, "sink", 3, FALSE, FALSE) >>]

\* upsampling of a signal: an initiator -> a Sampler with NI = Ratio, NO = 1
\* -> a logger
UpGraph ==
    [rates |-> [source |-> <<0, Ratio>>, filter |-> <<Ratio, 1>>,
                sink |-> <<1, 0>>],
     kind  |-> [source |-> "signal", filter |-> "sampler", sink |-> "logging"],
     edges |-> << Edge("source", 1, "filter", 1, FALSE, FALSE),
                  Edge("filter", 1, "sink", 1, FALSE, FALSE) >>]

\* decimation by 2 of a signal: an initiator -> a client that sums what it
\* consumes, NI = 1, NO = 2 -> a logger
DownGraph ==
    [rates |-> [source |-> <<0, 1>>, filter |-> <<1, 2>>, sink |-> <<2, 0>>],
     kind  |-> [source |-> "signal", filter |-> "adder", sink |-> "logging"],
     edges |-> << Edge("source", 1, "filter", 1, FALSE, FALSE),
                  Edge("filter", 1, "sink", 1, FALSE, FALSE) >>]

\* the loop of examples/simple-feedback.rs alone, fed by a constant signal:
\* source -> compensator <-> integrator, the residual is logged
LoopGraph ==
    [rates |-> [source |-> <<0, 1>>, compensator |-> <<1, 1>>,
                integrator |-> <<1, 1>>, sink |-> <<1, 0>>],
     kind  |-> [source |-> "signal", compensator |-> "compensator",
                integrator |-> "integrator", sink |-> "logging"],
     edges |-> << Edge("source", 1, "compensator", 1, FALSE, FALSE),
                  Edge("compensator", 1, "integrator", 1, FALSE, FALSE),
                  Edge("integrator", 1, "compensator", 2, TRUE, TRUE),
                  Edge("compensator", 2, "sink", 1, FALSE, FALSE) >>]

GraphIds == {"chain", "feedback", "mount", "rate", "m1", "join", "up", "down",
             "loop"}

Graph(g) ==
    CASE g = "chain"    -> ChainGraph
      [] g = "feedback" -> FeedbackGraph
      [] g = "mount"    -> MountGraph
      [] g = "rate"     -> RateGraph
      [] g = "m1"       -> M1Graph
      [] g = "join"     -> JoinGraph
      [] g = "up"       -> UpGraph
      [] g = "down"     -> DownGraph
      [] g = "loop"     -> LoopGraph

VARIABLES
    cfg,     \* the model that was built: graph, flume::unbounded or bounded for
             \* the .unbounded() edges, n_step of the initiator's client
    pc,      \* position of each actor task
    idx,     \* collect: index of the input whose recv is awaited
    rnd,     \* collect rounds (decimation) or sends (upsampling) done in this iteration
    pend,    \* send_async futures of the current join_all not yet completed
    rerr,    \* a recv of the current collect returned Closed
    serr,    \* a send of the current distribute returned an error
    err,     \* error the task's run() returned
    q,       \* channel buffers
    tx,      \* sender endpoint alive
    rx,      \* receiver endpoint alive
    idata,   \* Input::data, the payload last received on an edge
    odata,   \* Output::data, the payload cached on each output
    cstep,   \* Signal::step of an initiator client
    cval,    \* state of a sampler / compensator / integrator / sampler client
    log,     \* Logging client: the recorded payloads
    nupd,    \* history: number of client updates
    nrecv,   \* history: payloads received per edge
    nsent,   \* history: payloads sent per edge by the step loop
    nboot,   \* history: payloads sent per edge by the bootstrap pre-send
    nstep,   \* history: completed iterations of the step loop
    snap,    \* history: nstep of every actor when an initiator's produce returned None
    hsent,   \* history: the payloads put into the channel of each edge
    hrcvd,   \* history: the payloads taken out of the channel of each edge
    client,  \* io.rs: the client mutex of one actor and the position of each of
             \* its inputs and outputs in recv / send
    model,   \* Model: the actors as declared, its state, the error of check() or
             \* wait(), the tasks and their results
    call,    \* a call of Actor::collect / Actor::distribute made outside run()
    arrow,   \* clients/arrow_client.rs: the Arrow logger
    foh      \* clients/windloads.rs: CfdLoads<FOH>

vars == <<cfg, pc, idx, rnd, pend, rerr, serr, err, q, tx, rx, idata, odata,
          cstep, cval, log, nupd, nrecv, nsent, nboot, nstep, snap, hsent, hrcvd,
          client, model, call, arrow, foh>>
\* the parts that are exercised on their own
units == <<call, arrow, foh>>

(* ---------------------------------------------------------------------- *)
(* Static structure of the built graph                                     *)
(* ---------------------------------------------------------------------- *)
G == Graph(cfg.g)
Actors == DOMAIN G.rates
EdgeIds == DOMAIN G.edges
EdgeOf(e) == G.edges[e]
\* const generics NI, NO of Actor<I, O, NI, NO>
NI(a) == G.rates[a][1]
NO(a) == G.rates[a][2]
InEdges(a) == {e \in EdgeIds : EdgeOf(e).dst = a}
OutEdges(a) == {e \in EdgeIds : EdgeOf(e).src = a}
\* Actor::inputs / Actor::outputs are Some(..) once a channel was attached
HasInputs(a) == InEdges(a) # {}
HasOutputs(a) == OutEdges(a) # {}
NIn(a) == Cardinality(InEdges(a))
NOut(a) == Cardinality({EdgeOf(e).out : e \in OutEdges(a)})
\* the receiver of input i of actor a (inputs are kept in registration order)
\* variant: the inputs are visited last to first
InEdgeReversed(a, i) == CHOOSE e \in InEdges(a) : EdgeOf(e).inp = NIn(a) + 1 - i
InEdge(a, i) == CHOOSE e \in InEdges(a) : EdgeOf(e).inp = i
\* OutputObject::bootstrap: the senders of the outputs whose flag is set
\* variant: the pre-payload goes to the first sender of a flagged output only
FirstBootEdges(a) ==
    {e \in OutEdges(a) :
        /\ EdgeOf(e).boot
        /\ \A f \in OutEdges(a) : EdgeOf(f).out = EdgeOf(e).out => e <= f}
BootEdges(a) == {e \in OutEdges(a) : EdgeOf(e).boot}
\* flume::unbounded for the edges built with .unbounded(), flume::bounded otherwise
Unbounded(e) == cfg.unb /\ EdgeOf(e).fb
Initiators == {a \in Actors : ~HasInputs(a) /\ HasOutputs(a)}
Terminators == {a \in Actors : HasInputs(a) /\ ~HasOutputs(a)}

(* ---------------------------------------------------------------------- *)
(* Clients                                                                 *)
(* ---------------------------------------------------------------------- *)
RECURSIVE Pow2(_)
Pow2(n) == IF n = 0 THEN 1 ELSE 2 * Pow2(n - 1)
\* amplitude of the source signal (1.0 in fixed point, so that the
\* integrator gain 0.5 stays exact for NStep steps)
Unit == Pow2(NStep)
Kind(a) == G.kind[a]

\* Signal::n_step of the client of an initiator: the second set point of the
\* join graph runs for the longest time, every other signal for cfg.n steps
NSteps(a) == IF cfg.g = "join" /\ a = "setpoint" THEN NStep ELSE cfg.n
\* the longest n_step of the model, in simulation steps: an initiator of
\* rate NO runs once every NO simulation steps
RunLength ==
    CASE cfg.g = "join" -> NStep
      [] cfg.g = "up"   -> Ratio * cfg.n
      [] OTHER          -> cfg.n

\* Signal::produce: Some(vec![value, value]) while step < n_step, then None
\* variant: the signal yields one payload more before it returns None
SignalHasOneMore(a) == cstep[a] <= NSteps(a)
SignalHasData(a) == cstep[a] < NSteps(a)
\* Signal::produce: the sample of the current step; 5, 8, .. for the
\* upsampled signal, 10, 20, .. for the decimated one, a constant for the loop
SignalValue(a) ==
    CASE cfg.g = "up"   -> 3 * (cstep[a] + 1) + 2
      [] cfg.g = "down" -> 10 * (cstep[a] + 1)
      [] cfg.g = "loop" -> Unit
      [] OTHER          -> (cstep[a] + 1) * Unit

\* Client::consume of the clients used by the graphs
\* the client of the decimation: consume adds the payload to a sum
Sum(acc, vals) == << acc[1] + vals[1] >>

\* variant: an integrator of gain 1
ConsumeAll(a, vals) ==
    CASE Kind(a) = "sampler"     -> vals
      [] Kind(a) = "adder"       -> Sum(cval[a], vals)
      [] Kind(a) = "compensator" -> << vals[1] - vals[2] >>
      [] Kind(a) = "integrator"  -> << cval[a][1] + vals[1] >>
      [] OTHER                   -> cval[a]
Consume(a, vals) ==
    CASE Kind(a) = "sampler"     -> vals
      [] Kind(a) = "adder"       -> Sum(cval[a], vals)
      [] Kind(a) = "compensator" -> << vals[1] - vals[2] >>
      [] Kind(a) = "integrator"  -> << cval[a][1] + (vals[1] \div 2) >>
      [] OTHER                   -> cval[a]

\* Client::produce: the vector handed to Actor::distribute
ProduceVec(a) ==
    CASE Kind(a) = "signal"      -> << SignalValue(a), SignalValue(a) >>
      [] Kind(a) = "sampler"     -> cval[a]
      [] Kind(a) = "compensator" -> << cval[a][1], cval[a][1] >>
      [] Kind(a) = "integrator"  -> cval[a]
      [] Kind(a) = "adder"       -> cval[a]
      [] OTHER                   -> << >>

\* client state left behind by produce (Sampler drains its buffer)
\* variant: the clients keep their state over a produce
KeepState(a) == cval[a]
\* and the summing client starts a new sum
AfterProduce(a) ==
    CASE Kind(a) = "sampler" -> << >>
      [] Kind(a) = "adder"   -> << 0 >>
      [] OTHER               -> cval[a]

\* variant: an output without new data is given the default payload
SetDefault(old, new) ==
    [o \in DOMAIN old |-> IF o <= Len(new) THEN new[o] ELSE 0]
\* Actor::set_data: zip(outputs, new_data), outputs beyond the data keep theirs
SetData(old, new) ==
    [o \in DOMAIN old |-> IF o <= Len(new) THEN new[o] ELSE old[o]]

\* Actor::get_data: the payloads held by the inputs, in registration order
GetData(a, d) == [i \in 1..NIn(a) |-> d[InEdge(a, i)]]

(* ---------------------------------------------------------------------- *)
(* Initial state: the graph is built, every task is spawned                *)
(* ---------------------------------------------------------------------- *)
\* first position of Actor::run, by the match on (inputs, outputs)
RunEntry(a) == IF HasInputs(a) THEN "collect"
               ELSE IF HasOutputs(a) THEN "produce" ELSE "exited"

\* number of pre-payloads emitted on a bootstrap-flagged output
BootCount(a) == 1

\* the actors and channels as the builder calls leave them
Built ==
    /\ cfg \in [g : GraphIds, unb : BOOLEAN, n : 1..NStep]
    /\ pc = [a \in Actors |-> IF BootEdges(a) # {} THEN "boot" ELSE RunEntry(a)]
    /\ idx = [a \in Actors |-> 1]
    /\ rnd = [a \in Actors |-> 0]
    /\ pend = [a \in Actors |-> BootEdges(a)]
    /\ rerr = [a \in Actors |-> FALSE]
    /\ serr = [a \in Actors |-> FALSE]
    /\ err = [a \in Actors |-> "none"]
    /\ q = [e \in EdgeIds |-> << >>]
    /\ tx = [e \in EdgeIds |-> TRUE]
    /\ rx = [e \in EdgeIds |-> TRUE]
    /\ idata = [e \in EdgeIds |-> 0]
    /\ odata = [a \in Actors |-> [o \in 1..NOut(a) |-> 0]]
    /\ cstep = [a \in Actors |-> 0]
    /\ cval = [a \in Actors |-> IF Kind(a) \in {"compensator", "integrator", "adder"}
                                THEN << 0 >> ELSE << >>]
    /\ log = [a \in Actors |-> << >>]
    /\ nupd = [a \in Actors |-> 0]
    /\ nrecv = [e \in EdgeIds |-> 0]
    /\ nsent = [e \in EdgeIds |-> 0]
    /\ nboot = [e \in EdgeIds |-> 0]
    /\ nstep = [a \in Actors |-> 0]
    /\ snap = [a \in Actors |-> -1]
    /\ hsent = [e \in EdgeIds |-> << >>]
    /\ hrcvd = [e \in EdgeIds |-> << >>]

\* no error
NoError == << "none", "" >>
\* Model::new(actors) of the graph as the tests build it: the rates <<NI, NO>>
\* of every actor, the number of outputs it declared through add_output and
\* the channels made by into_input
Declared ==
    [rates |-> G.rates, outs |-> [a \in Actors |-> NOut(a)], edges |-> EdgeIds]
\* nobody holds the mutex
Nobody == << "none", 0 >>
\* in Spec and ModelSpec an access to the client is one step
Detached == [actor |-> "", holder |-> Nobody, at |-> << >>, none |-> {},
             result |-> "running"]
\* the model after Model::new(..).check()?.run(): every task is spawned
\* no call outside run()
NoCall == [actor |-> "", op |-> "none", result |-> "none", count |-> 0]
\* no logger, no wind loads
NoArrow == << >>
NoFoh == << >>
Idle == call = NoCall /\ arrow = NoArrow /\ foh = NoFoh
Init ==
    /\ Built
    /\ Idle
    /\ client = Detached
    /\ model = [decl |-> Declared, state |-> "running", error |-> NoError,
                tasks |-> Actors, results |-> [a \in Actors |-> "pending"]]

(* ---------------------------------------------------------------------- *)
(* Actor::disconnect                                                       *)
(* ---------------------------------------------------------------------- *)
\* output.tx.iter_mut().for_each(drop) drops the `&mut Sender` references
\* the iterator yields, not the senders: the endpoints stay as they are
Disconnect(a, t) == t

(* ---------------------------------------------------------------------- *)
(* Actor::collect: one recv of the sequential loop over the inputs         *)
(* ---------------------------------------------------------------------- *)
\* rounds of collect per iteration of the step loop
\* variant: one collect per iteration whatever the rates
OneRound(a) == 1
Rounds(a) == IF HasOutputs(a) /\ NO(a) >= NI(a) THEN NO(a) \div NI(a) ELSE 1
\* distributes per iteration of the step loop
\* variant: one distribute per iteration whatever the rates
OneSend(a) == 1
Sends(a) == IF HasInputs(a) /\ NI(a) > NO(a) THEN NI(a) \div NO(a) ELSE 1

\* variant: a closed input is reported as a configuration error
RecvNoInputs == "NoInputs"
\* Err(flume::RecvError) => Err(ActorError::DropRecv)
RecvError == "DropRecv"

\* variant: the result of the last recv alone decides
CollectLast(last, bad) == last
\* results.into_iter().collect::<Result<Vec<_>>>(): Ok only when the recv of
\* every input returned Ok
CollectOk(last, bad) == last /\ ~bad

\* variant: the payload received stays in the channel
NotTaken(ch) == ch
\* flume: recv_async takes the oldest payload off the channel
Taken(ch) == Tail(ch)

\* variant: the payload is taken off the channel and not handed over
ReadNothing(d, e, v) == d
\* Input::recv hands the payload it received to the client side of the input
\* (client.read(data), `input.data` of the Actor), which holds it for consume
Read(d, e, v) == [d EXCEPT ![e] = v]

\* variant: recv fails as soon as the sender is dropped, buffered payloads lost
ClosedEarly(e) == ~tx[e]
\* flume: recv_async fails once every sender is dropped and the buffer is empty
Closed(e) == q[e] = << >> /\ ~tx[e]

\* variant: the collect returns with the first recv that fails
FirstError(a, bad) == bad \/ idx[a] = NIn(a)
\* for input in inputs.iter_mut() { results.push(input.recv().await) }: the
\* results are looked at after the recv of the last input, whatever the
\* earlier ones returned
LastRecv(a, bad) == idx[a] = NIn(a)

Recv(a) ==
    /\ pc[a] = "collect"
    /\ LET e == InEdge(a, idx[a])
           closed == Closed(e)
           got == ~closed /\ q[e] # << >>
           d1 == IF got THEN Read(idata, e, Head(q[e])) ELSE idata
           bad == rerr[a] \/ closed
           last == LastRecv(a, bad)
           ok == CollectOk(last, bad)
           full == ok /\ rnd[a] + 1 = Rounds(a)
       IN
        /\ got \/ closed
        /\ q' = IF got THEN [q EXCEPT ![e] = Taken(@)] ELSE q
        /\ nrecv' = IF got THEN [nrecv EXCEPT ![e] = @ + 1] ELSE nrecv
        /\ idata' = d1
        /\ idx' = [idx EXCEPT ![a] = IF last THEN 1 ELSE @ + 1]
        /\ rerr' = [rerr EXCEPT ![a] = IF last THEN FALSE ELSE bad]
        \* results.into_iter().collect(): Err(DropRecv) => disconnect, return
        /\ err' = [err EXCEPT ![a] = IF last /\ bad THEN RecvError ELSE @]
        /\ tx' = IF last /\ bad THEN Disconnect(a, tx) ELSE tx
        \* Ok(get_data) => client.consume(..).update()
        /\ cval' = IF ok THEN [cval EXCEPT ![a] = Consume(a, GetData(a, d1))]
                   ELSE cval
        /\ log' = IF ok /\ Kind(a) = "logging"
                  THEN [log EXCEPT ![a] = @ \o GetData(a, d1)] ELSE log
        /\ nupd' = IF ok THEN [nupd EXCEPT ![a] = @ + 1] ELSE nupd
        /\ rnd' = [rnd EXCEPT ![a] = IF ~last THEN @
                                     ELSE IF bad \/ full THEN 0 ELSE @ + 1]
        /\ nstep' = IF full /\ ~HasOutputs(a)
                    THEN [nstep EXCEPT ![a] = @ + 1] ELSE nstep
        /\ pc' = [pc EXCEPT ![a] =
                    IF last /\ bad THEN "exited"
                    ELSE IF full /\ HasOutputs(a) THEN "produce"
                    ELSE "collect"]
        /\ hrcvd' = IF got THEN [hrcvd EXCEPT ![e] = Append(@, Head(q[e]))] ELSE hrcvd
        /\ UNCHANGED <<units, client, model, cfg, pend, serr, rx, odata, cstep, nsent, nboot, snap, hsent>>

(* ---------------------------------------------------------------------- *)
(* Actor::distribute(client.produce()): set_data and start of the sends    *)
(* ---------------------------------------------------------------------- *)
\* variant: only the first sender of each output is served
FirstSenders(a) ==
    {e \in OutEdges(a) :
        \A f \in OutEdges(a) : EdgeOf(f).out = EdgeOf(e).out => e <= f}
\* outputs.iter().map(send) with tx.iter().map(send_async): one send future
\* for every sender of every output
SendEdges(a) == OutEdges(a)

Produce(a) ==
    /\ pc[a] = "produce"
    /\ LET none == Kind(a) = "signal" /\ ~SignalHasData(a)
       IN
        \* the initiator calls client.update() before every produce
        /\ nupd' = IF ~HasInputs(a) THEN [nupd EXCEPT ![a] = @ + 1] ELSE nupd
        /\ IF none
           THEN \* distribute(None): disconnect, Err(Disconnected)
                /\ pc' = [pc EXCEPT ![a] = "exited"]
                /\ err' = [err EXCEPT ![a] = "Disconnected"]
                /\ tx' = Disconnect(a, tx)
                /\ snap' = [b \in Actors |-> IF snap[b] < 0 THEN nstep[b] ELSE snap[b]]
                /\ UNCHANGED <<odata, cstep, cval, pend, serr>>
           ELSE \* distribute(Some(data)): set_data, join_all of the sends
                /\ pc' = [pc EXCEPT ![a] = "send"]
                /\ odata' = [odata EXCEPT ![a] = SetData(@, ProduceVec(a))]
                /\ cstep' = IF Kind(a) = "signal"
                            THEN [cstep EXCEPT ![a] = @ + 1] ELSE cstep
                /\ cval' = [cval EXCEPT ![a] = AfterProduce(a)]
                /\ pend' = [pend EXCEPT ![a] = SendEdges(a)]
                /\ serr' = [serr EXCEPT ![a] = FALSE]
                /\ UNCHANGED <<err, tx, snap>>
        /\ UNCHANGED <<units, client, model, cfg, idx, rnd, rerr, q, rx, idata, log, nrecv, nsent,
                       nboot, nstep, hsent, hrcvd>>

(* ---------------------------------------------------------------------- *)
(* Output::send: completion of one send_async of the join_all              *)
(* ---------------------------------------------------------------------- *)
\* variant: the distribute goes on as soon as one send_async has completed
JoinFirst(rest) == TRUE
\* join_all(futures).await: the distribute goes on when every send_async of
\* every output has completed
JoinDone(rest) == rest = {}

\* variant: a channel without capacity
AlwaysReady(e) == TRUE
\* flume: send_async completes when the channel has room, or with an error
\* when the receiver is dropped
Ready(e) == ~rx[e] \/ Unbounded(e) \/ Len(q[e]) < Cap
\* join_all polls the send futures in the order they were created (outputs in
\* registration order, senders of an output in registration order): of the
\* futures that can complete, the first one completes first
PolledFirst(a, e) == \A f \in pend[a] : f < e => ~Ready(f)

\* variant: the results of the send futures are not looked at
SendIgnored(was, gone) == FALSE
\* collect::<Result<Vec<()>, SendError>>() over the results of the join_all:
\* an error as soon as one send_async returned an error
SendFailed(was, gone) == was \/ gone

Send(a, e) ==
    /\ pc[a] \in {"boot", "send"}
    /\ e \in pend[a]
    /\ LET gone == ~rx[e]
           bad == SendFailed(serr[a], gone)
           rest == pend[a] \ {e}
           boot == pc[a] = "boot"
           done == JoinDone(rest)
           again == done /\ boot /\ rnd[a] + 1 < BootCount(a)
           sent == done /\ ~boot /\ ~bad
           full == sent /\ rnd[a] + 1 = Sends(a)
       IN
        /\ Ready(e)
        /\ PolledFirst(a, e)
        /\ q' = IF gone THEN q
                ELSE [q EXCEPT ![e] = Append(@, odata[a][EdgeOf(e).out])]
        /\ nsent' = IF ~gone /\ ~boot THEN [nsent EXCEPT ![e] = @ + 1] ELSE nsent
        /\ nboot' = IF ~gone /\ boot THEN [nboot EXCEPT ![e] = @ + 1] ELSE nboot
        /\ pend' = [pend EXCEPT ![a] = IF again THEN BootEdges(a) ELSE rest]
        /\ serr' = [serr EXCEPT ![a] = IF done THEN FALSE ELSE bad]
        \* an error of the pre-send is printed and run() is entered anyway;
        \* an error of a step-loop send leaves run() through `?`
        /\ err' = [err EXCEPT ![a] = IF done /\ ~boot /\ bad THEN "DropSend" ELSE @]
        /\ rnd' = [rnd EXCEPT ![a] =
                     IF ~done THEN @
                     ELSE IF again \/ (sent /\ ~full) THEN @ + 1
                     ELSE 0]
        /\ nstep' = IF full THEN [nstep EXCEPT ![a] = @ + 1] ELSE nstep
        /\ pc' = [pc EXCEPT ![a] =
                    IF ~done \/ again THEN @
                    ELSE IF boot THEN RunEntry(a)
                    ELSE IF bad THEN "exited"
                    ELSE IF full /\ HasInputs(a) THEN "collect"
                    ELSE "produce"]
        /\ hsent' = IF gone THEN hsent
                    ELSE [hsent EXCEPT ![e] = Append(@, odata[a][EdgeOf(e).out])]
        /\ UNCHANGED <<units, client, model, cfg, idx, rerr, tx, rx, idata, odata, cstep, cval, log,
                       nupd, nrecv, snap, hrcvd>>

(* ---------------------------------------------------------------------- *)
(* End of the task: the actor moved into the task is dropped               *)
(* ---------------------------------------------------------------------- *)
\* variant: the actor outlives its task, so its senders stay open
KeepSenders(a, t) == t
\* the actor was moved into the task (async move): when the task returns the
\* actor is dropped and with it the senders of its outputs ...
DropSenders(a, t) == [e \in EdgeIds |-> IF e \in OutEdges(a) THEN FALSE ELSE t[e]]
\* ... and the receivers of its inputs
DropReceivers(a, r) == [e \in EdgeIds |-> IF e \in InEdges(a) THEN FALSE ELSE r[e]]

Drop(a) ==
    /\ pc[a] = "exited"
    /\ pc' = [pc EXCEPT ![a] = "dropped"]
    /\ tx' = DropSenders(a, tx)
    /\ rx' = DropReceivers(a, rx)
    /\ UNCHANGED <<units, client, model, cfg, idx, rnd, pend, rerr, serr, err, q, idata, odata,
                   cstep, cval, log, nupd, nrecv, nsent, nboot, nstep, snap,
                   hsent, hrcvd>>

Next ==
    \/ \E a \in Actors : Recv(a)
    \/ \E a \in Actors : Produce(a)
    \/ \E a \in Actors : \E e \in EdgeIds : Send(a, e)
    \/ \E a \in Actors : Drop(a)

Spec == Init /\ [][Next]_vars

\* every task is scheduled by the executor: a task that can take a step
\* eventually takes it
Step(a) == Recv(a) \/ Produce(a) \/ (\E e \in EdgeIds : Send(a, e)) \/ Drop(a)
AllActors == {"source", "filter", "compensator", "integrator", "sink",
              "setpoint", "mount", "fem", "hardpoints", "loadcells", "segment"}
FairSpec == Spec /\ \A a \in AllActors : WF_vars(a \in Actors /\ Step(a))

(* ---------------------------------------------------------------------- *)
(* Model::new(actors).check()?.run()                                       *)
(* ---------------------------------------------------------------------- *)
\* the variables of the actors and of the channels
actorVars == <<cfg, pc, idx, rnd, pend, rerr, serr, err, q, tx, rx, idata,
               odata, cstep, cval, log, nupd, nrecv, nsent, nboot, nstep,
               snap, hsent, hrcvd>>

\* Actor::inputs of actor a, one Input per channel made by into_input
DeclInputs(d, a) == {e \in d.edges : EdgeOf(e).dst = a}
\* Output::tx of output o of actor a, its fan-out list
DeclSenders(d, a, o) ==
    {e \in d.edges : EdgeOf(e).src = a /\ EdgeOf(e).out = o}

\* the rates the actors of the graph are declared with
RateValues == {G.rates[a][i] : a \in Actors, i \in 1..2} \ {0}

\* variant: the consumer is declared with a rate of its own
OwnInputRate(f, v, a) == v
\* into_input(&mut consumer): the inputs rate NI of the consumer is the
\* outputs rate NO of the output the channel is attached to
InputRate(f, v, a) == f[NI(a)]

\* the models the builder calls can make of a graph: other values for the
\* rates of the connected actors, one actor b with a rate v where it has no
\* ports and x outputs that are never connected, one into_input call left out
Models ==
    {[rates |-> [a \in Actors |->
                   << IF HasInputs(a) THEN InputRate(f, v, a)
                      ELSE IF a = b THEN v ELSE 0,
                      IF HasOutputs(a) THEN f[NO(a)]
                      ELSE IF a = b THEN v ELSE 0 >>],
      outs  |-> [Declared.outs EXCEPT ![b] = @ + x],
      edges |-> EdgeIds \ gone] :
        f \in [RateValues -> 0..Ratio], b \in Actors, v \in 0..Ratio,
        x \in 0..MaxOrphans, gone \in {{}} \cup {{e} : e \in EdgeIds}}

ModelInit ==
    /\ Built
    /\ Idle
    /\ client = Detached
    /\ cfg.n = NStep /\ ~cfg.unb
    /\ model \in [decl : Models, state : {"new"}, error : {NoError},
                  tasks : {{}}, results : {[a \in Actors |-> "pending"]}]

ErrorKinds == {"NoInputsPositiveRate", "SomeInputsZeroRate",
               "NoOutputsPositiveRate", "SomeOutputsZeroRate", "OrphanOutput"}

\* variant: only the inputs rate is compared with the inputs
InputRateFault(d, k, a) ==
    CASE k = "NoInputsPositiveRate" ->
             DeclInputs(d, a) = {} /\ d.rates[a][1] > 0
      [] k = "SomeInputsZeroRate" ->
             DeclInputs(d, a) # {} /\ d.rates[a][1] = 0
      [] OTHER -> FALSE
\* check(): (NI = 0) <=> no inputs and (NO = 0) <=> no outputs, per actor
RateFault(d, k, a) ==
    CASE k = "NoInputsPositiveRate" ->
             DeclInputs(d, a) = {} /\ d.rates[a][1] > 0
      [] k = "SomeInputsZeroRate" ->
             DeclInputs(d, a) # {} /\ d.rates[a][1] = 0
      [] k = "NoOutputsPositiveRate" ->
             d.outs[a] = 0 /\ d.rates[a][2] > 0
      [] k = "SomeOutputsZeroRate" ->
             d.outs[a] > 0 /\ d.rates[a][2] = 0
      [] OTHER -> FALSE

\* variant: the fan-out lists are not looked at
NoOrphans(d, a) == {}
\* check(): fan_out >= 1 for every output; Output::len is tx.len()
OrphanOutputs(d, a) == {o \in 1..d.outs[a] : DeclSenders(d, a, o) = {}}

\* the errors check() can return for the model; which one it returns when
\* several apply is not fixed
Faults(d) ==
    {f \in ErrorKinds \X Actors :
        IF f[1] = "OrphanOutput" THEN OrphanOutputs(d, f[2]) # {}
        ELSE RateFault(d, f[1], f[2])}

\* Model::check
ModelCheck ==
    /\ model.state = "new"
    /\ \/ /\ Faults(model.decl) = {}
          /\ model' = [model EXCEPT !.state = "ready"]
       \/ \E f \in Faults(model.decl) :
            model' = [model EXCEPT !.state = "failed", !.error = f]
    /\ UNCHANGED <<actorVars, client, units>>

\* Model::run, reached only when `check()?` did not return the error:
\* one task per actor
ModelRun ==
    /\ model.state = "ready"
    /\ model' = [model EXCEPT !.state = "running", !.tasks = Actors]
    /\ UNCHANGED <<actorVars, client, units>>

\* what a task can end with: the closures of the step loop and two of the
\* errors that are not closures
TaskResults == {"DropRecv", "DropSend", "NoData", "Disconnected",
                "NoInputs", "NoClient"}
\* the task of actor a ends with result r; only the tasks of the graph as
\* the tests declare it are followed to their end
TaskEnd(a, r) ==
    /\ model.state = "running" /\ model.decl = Declared
    /\ a \in model.tasks /\ model.results[a] = "pending"
    /\ model' = [model EXCEPT !.results[a] = r]
    /\ UNCHANGED <<actorVars, client, units>>

\* Model::new(vec![..]): the order of the actors in the model
TaskOrder == << "source", "setpoint", "hardpoints", "filter", "compensator",
                "integrator", "mount", "fem", "loadcells", "segment", "sink" >>
Index(a) == CHOOSE i \in 1..Len(TaskOrder) : TaskOrder[i] = a

\* an error that is not a closure
Fatal(r) == r \notin {"DropRecv", "DropSend", "NoData", "Disconnected"}

\* wait() awaits all tasks
AllFinished(res, t) == \A a \in t : res[a] # "pending"

\* variant: the last error that is not a closure
LastFatal(res) ==
    LET bad == {a \in DOMAIN res : Fatal(res[a])}
    IN  IF bad = {} THEN NoError
        ELSE LET a == CHOOSE x \in bad : \A y \in bad : Index(y) <= Index(x)
             IN  << res[a], a >>
\* wait() collects the first error that is not a closure
FirstFatal(res) ==
    LET bad == {a \in DOMAIN res : Fatal(res[a])}
    IN  IF bad = {} THEN NoError
        ELSE LET a == CHOOSE x \in bad : \A y \in bad : Index(x) <= Index(y)
             IN  << res[a], a >>

\* Model::wait
ModelWait ==
    /\ model.state = "running"
    /\ AllFinished(model.results, model.tasks)
    /\ model' = [model EXCEPT !.state = "terminated",
                              !.error = FirstFatal(model.results)]
    /\ UNCHANGED <<actorVars, client, units>>

ModelNext ==
    \/ ModelCheck
    \/ ModelRun
    \/ \E a \in Actors : \E r \in TaskResults : TaskEnd(a, r)
    \/ ModelWait

ModelSpec == ModelInit /\ [][ModelNext]_vars

(* ---------------------------------------------------------------------- *)
(* io.rs: Input::recv and Output::send on the client mutex of one actor    *)
(* ---------------------------------------------------------------------- *)
\* main keeps a clone of the Arc<Mutex<C>> of the client, as the tests do with
\* their logger
Main == << "main", 0 >>
\* the inputs and the outputs of actor a, the update of its client, and main
Ports(a) ==
    {<< "in", i >> : i \in 1..NIn(a)} \cup {<< "out", o >> : o \in 1..NOut(a)}
        \cup {<< "update", 0 >>, Main}

ClientInit ==
    /\ Built
    /\ Idle
    /\ cfg.n = NStep /\ ~cfg.unb
    /\ model = [decl |-> Declared, state |-> "running", error |-> NoError,
                tasks |-> Actors, results |-> [a \in Actors |-> "pending"]]
    /\ \E a \in Actors :
          client = [actor |-> a, holder |-> Nobody,
                    at |-> [p \in Ports(a) |-> "idle"],
                    none |-> {}, result |-> "running"]

\* the step has come to port p: the inputs are received one after the other
\* (Actor::collect), then the client is updated, then the sends of all the
\* outputs are awaited together (Actor::distribute, join_all)
Turn(p) ==
    LET at == client.at
        collected == \A x \in DOMAIN at : x[1] = "in" => at[x] = "done"
    IN  CASE p[1] = "in" ->
                 \A x \in DOMAIN at : (x[1] = "in" /\ x[2] < p[2]) => at[x] = "done"
          [] p[1] = "update" -> collected
          [] p[1] = "out" -> collected /\ at[<< "update", 0 >>] = "done"
          [] p[1] = "main" -> TRUE

\* variant: the client is not behind a mutex
Unlocked(h) == TRUE
\* tokio Mutex::lock().await completes when nobody holds the mutex
Free(h) == h = Nobody

\* self.client.lock().await: port p takes the mutex; an input then awaits
\* rx.recv_async() with the guard, an output or the update calls the client
Lock(p) ==
    /\ client.at[p] = "idle" /\ Turn(p)
    /\ p = Main \/ client.result = "running"
    /\ Free(client.holder)
    /\ client' = [client EXCEPT !.holder = p,
                      !.at[p] = IF p[1] = "in" THEN "recv" ELSE "inside"]
    /\ UNCHANGED <<actorVars, model, units>>

\* Input::recv: recv_async has returned a payload, client.read(..) is called
\* with the guard still held
ReadBegin(p) ==
    /\ client.at[p] = "recv"
    /\ client' = [client EXCEPT !.at[p] = "inside"]
    /\ UNCHANGED <<actorVars, model, units>>

\* variant: an output keeps the guard while its sends are awaited
KeepGuard(h, p) == IF h = p /\ p[1] # "out" THEN Nobody ELSE h
\* the MutexGuard is dropped by the port that holds it
Release(h, p) == IF h = p THEN Nobody ELSE h

\* the call of the client returns and the guard is dropped: at the end of
\* Input::recv, and at the end of the statement `self.data = ..write()` of
\* Output::send, which goes on with the send_async of its senders when write
\* returned Some(data) and returns Err(Disconnected) when it returned None
Unlock(p) ==
    /\ client.at[p] = "inside"
    /\ \E some \in BOOLEAN :
          /\ p[1] # "out" => some
          /\ client' = [client EXCEPT
                           !.holder = Release(@, p),
                           !.at[p] = IF p[1] = "main" THEN "idle"
                                     ELSE IF p[1] = "out" /\ some THEN "send"
                                     ELSE "done",
                           !.none = IF some THEN @ ELSE @ \cup {p}]
    /\ UNCHANGED <<actorVars, model, units>>

\* Output::send: the join_all of the send_async futures has completed
SendEnd(p) ==
    /\ client.at[p] = "send"
    /\ client' = [client EXCEPT !.at[p] = "done"]
    /\ UNCHANGED <<actorVars, model, units>>

\* variant: the distribute returns with the first error (try_join_all)
TryJoined(at, none) ==
    none # {} \/ \A p \in DOMAIN at : p[1] = "out" => at[p] = "done"
\* Actor::distribute: join_all(futures).await returns when the send of every
\* output has returned
Joined(at, none) == \A p \in DOMAIN at : p[1] = "out" => at[p] = "done"

\* the step is complete: the loop of the task starts the next one, or the
\* distribute returns the error of an output and the task ends
StepEnd ==
    /\ client.actor \in Actors
    /\ client.result = "running"
    /\ \A p \in DOMAIN client.at : p[1] \in {"in", "update"} => client.at[p] = "done"
    /\ Joined(client.at, client.none)
    /\ client' = IF client.none = {}
                 THEN [client EXCEPT
                          !.at = [p \in DOMAIN client.at |->
                                    IF p = Main THEN client.at[p] ELSE "idle"]]
                 ELSE [client EXCEPT !.result = "Disconnected"]
    /\ UNCHANGED <<actorVars, model, units>>

ClientNext ==
    \/ \E p \in DOMAIN client.at : Lock(p)
    \/ \E p \in DOMAIN client.at : ReadBegin(p)
    \/ \E p \in DOMAIN client.at : Unlock(p)
    \/ \E p \in DOMAIN client.at : SendEnd(p)
    \/ StepEnd

ClientSpec == ClientInit /\ [][ClientNext]_vars

(* ---------------------------------------------------------------------- *)
(* Actor::collect and Actor::distribute called outside Actor::run          *)
(* ---------------------------------------------------------------------- *)
\* the graph is built and no task is spawned yet: main calls collect or
\* distribute on an actor, as examples/simple-feedback.rs does for the
\* integrator
CallInit ==
    /\ Built
    /\ cfg.n = NStep
    /\ client = Detached
    /\ model = [decl |-> Declared, state |-> "new", error |-> NoError,
                tasks |-> {}, results |-> [a \in Actors |-> "pending"]]
    /\ Idle

\* the vectors handed to distribute
CallData == {<< >>, << 1 >>, << 1, 2 >>}
\* main can make a call: the call before returned
Returned == call.result \notin {"pending", "panic"} /\ call.count < MaxCalls

\* Actor::collect: Err(NoInputs) when inputs is None; else recv on every
\* input in order, which pends on the first channel that holds nothing
CallCollect(a) ==
    /\ Returned
    /\ IF ~HasInputs(a)
       THEN /\ call' = [actor |-> a, op |-> "collect", result |-> "NoInputs",
                        count |-> call.count + 1]
            /\ UNCHANGED actorVars
       ELSE LET waiting == {i \in 1..NIn(a) : q[InEdge(a, i)] = << >>}
                got == {InEdge(a, i) : i \in {j \in 1..NIn(a) :
                                               \A w \in waiting : j < w}}
            IN  /\ call' = [actor |-> a, op |-> "collect",
                            result |-> IF waiting = {} THEN "ok" ELSE "pending",
                            count |-> call.count + 1]
                /\ q' = [e \in EdgeIds |-> IF e \in got THEN Tail(q[e]) ELSE q[e]]
                /\ idata' = [e \in EdgeIds |->
                               IF e \in got THEN Head(q[e]) ELSE idata[e]]
                /\ nrecv' = [e \in EdgeIds |->
                               IF e \in got THEN nrecv[e] + 1 ELSE nrecv[e]]
                /\ hrcvd' = [e \in EdgeIds |->
                               IF e \in got THEN Append(hrcvd[e], Head(q[e]))
                               ELSE hrcvd[e]]
                /\ UNCHANGED <<cfg, pc, idx, rnd, pend, rerr, serr, err, tx, rx,
                               odata, cstep, cval, log, nupd, nsent, nboot,
                               nstep, snap, hsent>>
    /\ UNCHANGED <<client, model, arrow, foh>>

\* Actor::distribute(Some(data)): set_data unwraps outputs (a panic when
\* outputs is None), then the sends of every output are awaited together;
\* a send on a full channel pends
CallDistribute(a, data) ==
    /\ Returned
    /\ IF ~HasOutputs(a)
       THEN /\ call' = [actor |-> a, op |-> "distribute", result |-> "panic",
                        count |-> call.count + 1]
            /\ UNCHANGED actorVars
       ELSE LET new == SetData(odata[a], data)
                ready == {e \in SendEdges(a) : Ready(e)}
            IN  /\ call' = [actor |-> a, op |-> "distribute",
                            result |-> IF ready = SendEdges(a) THEN "ok"
                                       ELSE "pending",
                            count |-> call.count + 1]
                /\ odata' = [odata EXCEPT ![a] = new]
                /\ q' = [e \in EdgeIds |->
                           IF e \in ready THEN Append(q[e], new[EdgeOf(e).out])
                           ELSE q[e]]
                /\ hsent' = [e \in EdgeIds |->
                               IF e \in ready
                               THEN Append(hsent[e], new[EdgeOf(e).out])
                               ELSE hsent[e]]
                /\ nboot' = [e \in EdgeIds |->
                               IF e \in ready THEN nboot[e] + 1 ELSE nboot[e]]
                /\ UNCHANGED <<cfg, pc, idx, rnd, pend, rerr, serr, err, tx, rx,
                               idata, cstep, cval, log, nupd, nrecv, nsent,
                               nstep, snap, hrcvd>>
    /\ UNCHANGED <<client, model, arrow, foh>>

CallNext ==
    \/ \E a \in Actors : CallCollect(a)
    \/ \E a \in Actors : \E data \in CallData : CallDistribute(a, data)

CallSpec == CallInit /\ [][CallNext]_vars

(* ---------------------------------------------------------------------- *)
(* clients/arrow_client.rs: the Arrow logger                               *)
(* ---------------------------------------------------------------------- *)
\* the actors around the part that is exercised on its own
Frame ==
    /\ Built
    /\ cfg = [g |-> "chain", unb |-> FALSE, n |-> NStep]
    /\ client = Detached
    /\ model = [decl |-> Declared, state |-> "running", error |-> NoError,
                tasks |-> Actors, results |-> [a \in Actors |-> "pending"]]

\* ArrowBuilder::entry(size): the size of entry e
Capacity(e) == e

\* Arrow::builder(n_step).entry(..) .. .decimation(d).build(): step = 0, one
\* empty buffer per entry, no record; `got` counts the payloads received for
\* each entry and `kept` names the ones that were appended (history)
ArrowInit ==
    /\ Frame
    /\ call = NoCall /\ foh = NoFoh
    /\ \E n \in 1..MaxEntry : \E d \in 1..MaxDecimation :
          arrow = [n_entry |-> n, decimation |-> d, step |-> 0,
                   buffers |-> [e \in 1..n |-> << >>],
                   record |-> << >>,
                   got |-> [e \in 1..n |-> 0],
                   kept |-> [e \in 1..n |-> << >>]]

\* the payload of an entry: Capacity(e) values, here the ordinal of the payload
Slice(e, k) == [i \in 1..Capacity(e) |-> k]

\* impl Read for Arrow, called for a payload of entry e: step += 1, return
\* when (step - 1) % decimation > 0, else append the slice to the buffer of
\* the entry
ArrowRead(e) ==
    /\ arrow.step < MaxReads
    /\ LET k == arrow.got[e] + 1
           skip == arrow.step % arrow.decimation > 0
       IN  arrow' = [arrow EXCEPT
                        !.step = @ + 1,
                        !.got[e] = k,
                        !.buffers[e] = IF skip THEN @ ELSE @ \o Slice(e, k),
                        !.kept[e] = IF skip THEN @ ELSE Append(@, k)]
    /\ UNCHANGED <<actorVars, client, model, call, foh>>

\* Arrow::record, the first call: every buffer is made a list of
\* step / n_entry / decimation rows (into_list, which also empties the
\* buffer builder through finish())
ArrowRecord ==
    /\ arrow.record = << >>
    /\ arrow' = [arrow EXCEPT
                    !.record = << [rows |-> (arrow.step \div arrow.n_entry)
                                               \div arrow.decimation,
                                   values |-> arrow.buffers] >>,
                    !.buffers = [e \in DOMAIN arrow.buffers |-> << >>]]
    /\ UNCHANGED <<actorVars, client, model, call, foh>>

ArrowNext ==
    \/ \E e \in 1..arrow.n_entry : ArrowRead(e)
    \/ ArrowRecord

ArrowSpec == ArrowInit /\ [][ArrowNext]_vars

(* ---------------------------------------------------------------------- *)
(* clients/windloads.rs: CfdLoads<FOH>                                     *)
(* ---------------------------------------------------------------------- *)
\* usize::MAX
UsizeMax == Pow2(UsizeBits) - 1

\* Builder::build of CfdLoads<FOH>: step = 0, max_step = usize::MAX, FOH::new
\* (rate) with i = 0, u = 0; `out` is the result of the last write since the
\* last update, `past` tells that an update was made with step > max_step,
\* `wrapped` that the step counter overflowed (history)
FohInit ==
    /\ Frame
    /\ call = NoCall /\ arrow = NoArrow
    /\ \E r \in 1..MaxRate :
          foh = [rate |-> r, i |-> 0, u |-> 0, step |-> 0, max_step |-> UsizeMax,
                 state |-> "ok", out |-> << "idle" >>, updates |-> 0,
                 past |-> FALSE, wrapped |-> FALSE]

\* CfdLoads::stop_after(max_step)
StopAfter(m) ==
    /\ foh.state = "ok"
    /\ foh.max_step = UsizeMax
    /\ foh' = [foh EXCEPT !.max_step = m]
    /\ UNCHANGED <<actorVars, client, model, call, arrow>>

\* impl Update for CfdLoads<FOH>: step = usize::MAX when step > max_step,
\* FOH::update(step), step += 1. The addition overflows when step is
\* usize::MAX: a panic in a build with overflow checks, a wrap to 0 without
FohUpdate(checked) ==
    /\ foh.state = "ok"
    /\ foh.updates < MaxUpdates
    /\ LET over == foh.step > foh.max_step
           step == IF over THEN UsizeMax ELSE foh.step
           i == step \div foh.rate
           overflow == step = UsizeMax
       IN  foh' = [foh EXCEPT
                      !.i = i,
                      !.u = step - i * foh.rate,
                      !.step = IF overflow /\ checked THEN step
                               ELSE (step + 1) % Pow2(UsizeBits),
                      !.state = IF overflow /\ checked THEN "panic" ELSE "ok",
                      !.out = << "idle" >>,
                      !.updates = @ + 1,
                      !.past = @ \/ over,
                      !.wrapped = @ \/ overflow]
    /\ UNCHANGED <<actorVars, client, model, call, arrow>>

\* impl Write<MountLoads> for CfdLoads<FOH>, FOH::sample: the samples i and
\* i + 1 of the data interpolated at u / rate, None when one of them is
\* missing; i + 1 overflows when i is usize::MAX
FohWrite(checked) ==
    /\ foh.state = "ok"
    /\ foh.out = << "idle" >>
    /\ LET overflow == foh.i = UsizeMax
           next == (foh.i + 1) % Pow2(UsizeBits)
       IN  foh' = IF overflow /\ checked
                  THEN [foh EXCEPT !.state = "panic"]
                  ELSE [foh EXCEPT !.out =
                           IF foh.i < NSamples /\ next < NSamples
                           THEN << "Some", foh.i, foh.u >>
                           ELSE << "None" >>]
    /\ UNCHANGED <<actorVars, client, model, call, arrow>>

FohNext ==
    \/ \E m \in 0..MaxStop : StopAfter(m)
    \/ \E checked \in BOOLEAN : FohUpdate(checked)
    \/ \E checked \in BOOLEAN : FohWrite(checked)

FohSpec == FohInit /\ [][FohNext]_vars

(* ---------------------------------------------------------------------- *)
(* Task states used by the properties                                      *)
(* ---------------------------------------------------------------------- *)
\* the task has not left Actor::run
Live(a) == pc[a] \notin {"exited", "dropped"}
\* the task is suspended in recv_async or in every send_async of its join_all
Blocked(a) ==
    \/ /\ pc[a] = "collect"
       /\ q[InEdge(a, idx[a])] = << >>
       /\ tx[InEdge(a, idx[a])]
    \/ /\ pc[a] \in {"boot", "send"}
       /\ \A e \in pend[a] : rx[e] /\ ~Unbounded(e) /\ Len(q[e]) >= Cap
\* an initiator's produce has returned None
Exhausted(a) == err[a] = "Disconnected"
AllDone == \A a \in Actors : pc[a] = "dropped"

\* C1: in the graphs with bootstrapped feedback cycles (single-rate and
\* through a 1:k decimator and a k:1 upsampler), as long as no initiator is
\* exhausted there is no state in which every live actor is blocked on a
\* channel operation
C1_NoDeadlock ==
    (\A i \in Initiators : ~Exhausted(i))
        => ~(\A a \in Actors : Live(a) => Blocked(a))

\* steps of an actor counted at the simulation rate: one iteration of the
\* step loop of an actor with rates NI, NO spans max(NI, NO) simulation steps
SimSteps(a) == nstep[a] * (IF NI(a) > NO(a) THEN NI(a) ELSE NO(a))

\* C2: with a finite initiator (n_step payloads, then None) and a fair
\* scheduler every task of the model eventually ends, and no actor ever
\* completes more than n_step steps counted at the simulation rate
C2_Terminates ==
    /\ <>AllDone
    /\ [](\A a \in Actors : SimSteps(a) <= RunLength)

\* the actor waits in recv on an input whose sender is dropped and whose
\* buffer is empty
ClosedWait(d) ==
    /\ pc[d] = "collect"
    /\ ~tx[InEdge(d, idx[d])]
    /\ q[InEdge(d, idx[d])] = << >>

Started(a) ==
    \/ nupd[a] > 0
    \/ \E e \in InEdges(a) : nrecv[e] > 0
    \/ \E e \in OutEdges(a) : nsent[e] > 0

\* C4 (as stated): while any bootstrap pre-send is still to be completed no
\* actor of the model has started its step loop
C4_BootBeforeAnyStep ==
    (\E a \in Actors : pc[a] = "boot") => \A b \in Actors : ~Started(b)

\* C4: an actor that has started its step loop has completed the pre-send of
\* each of its own bootstrap outputs, and a payload has been received on a
\* bootstrapped edge only after the pre-payload was put in its channel
C4_BootBeforeOwnStep ==
    /\ \A a \in Actors :
          Started(a) => \A e \in OutEdges(a) : EdgeOf(e).boot => nboot[e] = 1
    /\ \A e \in EdgeIds :
          (EdgeOf(e).boot /\ nrecv[e] > 0) => nboot[e] = 1
\* a bootstrapping actor has completed a step of its loop after its pre-send,
\* and the pre-payload has been received downstream
C4_Witness ==
    \E e \in EdgeIds :
        /\ EdgeOf(e).boot /\ nboot[e] = 1 /\ nrecv[e] >= 1
        /\ nstep[EdgeOf(e).src] >= 1

\* C5: once the pre-send of a bootstrap output is over, each of the K channels
\* of that output has been given the pre-payload, and until the downstream
\* actor has received on that channel the pre-payload sits in it, so that the
\* first recv needs no step-loop send of the upstream actor
C5_BootBroadcast ==
    \A e \in EdgeIds :
        EdgeOf(e).boot =>
            /\ pc[EdgeOf(e).src] # "boot" => nboot[e] = 1
            /\ (nboot[e] = 1 /\ nrecv[e] = 0) => Len(q[e]) >= 1
\* the two inputs fed by one bootstrapped output have each completed a recv
\* before the upstream actor sent anything from its step loop
C5_Witness ==
    \E e, f \in EdgeIds :
        /\ e # f /\ EdgeOf(e).boot /\ EdgeOf(f).boot
        /\ EdgeOf(e).src = EdgeOf(f).src /\ EdgeOf(e).out = EdgeOf(f).out
        /\ nrecv[e] = 1 /\ nrecv[f] = 1
        /\ nsent[e] = 0 /\ nsent[f] = 0

\* every input of the actor has been received once per completed round, plus
\* once where the round in progress got that far
RoundsReceived(a) ==
    \A i \in InEdges(a) : nupd[a] <= nrecv[i] /\ nrecv[i] <= nupd[a] + 1

\* C6: an actor with inputs and outputs and NO >= NI sends once on each output
\* per iteration, and only after exactly NO/NI rounds of (recv on each input,
\* update): it is sending only when NO/NI rounds of this iteration are done,
\* and it is collecting only when fewer are done and nothing of this iteration
\* was sent
C6_Decimation ==
    \A a \in Actors :
        (HasInputs(a) /\ HasOutputs(a) /\ NO(a) >= NI(a)) =>
            LET k == NO(a) \div NI(a) IN
            /\ RoundsReceived(a)
            /\ nupd[a] <= k * (nstep[a] + 1)
            /\ \A e \in OutEdges(a) :
                  /\ nstep[a] <= nsent[e] /\ nsent[e] <= nstep[a] + 1
                  /\ k * nsent[e] <= nupd[a]
                  /\ pc[a] = "collect" => nsent[e] = nstep[a]
            /\ pc[a] \in {"produce", "send"} => nupd[a] = k * (nstep[a] + 1)
            /\ pc[a] = "collect" => nupd[a] < k * (nstep[a] + 1)
\* a 1:k decimating actor is back in collect after a complete iteration
C6_Witness ==
    \E a \in Actors :
        /\ HasInputs(a) /\ HasOutputs(a) /\ NO(a) > NI(a)
        /\ nstep[a] >= 1 /\ pc[a] = "collect" /\ nupd[a] > NO(a) \div NI(a)

\* C7: an actor with inputs and outputs and NI > NO does one round of (recv on
\* each input, update) per iteration and then exactly NI/NO sends on each
\* output: whenever it collects again each output has emitted NI/NO payloads
\* per round, and never more than that
C7_Upsampling ==
    \A a \in Actors :
        (HasInputs(a) /\ HasOutputs(a) /\ NI(a) > NO(a)) =>
            LET k == NI(a) \div NO(a) IN
            /\ RoundsReceived(a)
            /\ nstep[a] <= nupd[a] /\ nupd[a] <= nstep[a] + 1
            /\ \A e \in OutEdges(a) :
                  /\ k * nstep[a] <= nsent[e] /\ nsent[e] <= k * nupd[a]
                  /\ pc[a] = "collect" => nsent[e] = k * nupd[a]
            /\ pc[a] = "collect" => nupd[a] = nstep[a]
            /\ pc[a] \in {"produce", "send"} => nupd[a] = nstep[a] + 1
\* a k:1 upsampling actor is back in collect after a complete iteration
C7_Witness ==
    \E a \in Actors :
        /\ HasInputs(a) /\ HasOutputs(a) /\ NI(a) > NO(a)
        /\ nstep[a] >= 1 /\ pc[a] = "collect"
        /\ \A e \in OutEdges(a) : nsent[e] = NI(a) \div NO(a)

\* C8: an initiator never receives; it updates its client once and then sends
\* once on every output, iteration after iteration, and the iteration in which
\* the client has no data is its last: it ends with Disconnected after exactly
\* n_step payloads on every output
C8_Initiator ==
    \A a \in Initiators :
        /\ pc[a] # "collect" /\ InEdges(a) = {}
        /\ nupd[a] = nstep[a] + (IF pc[a] = "produce" THEN 0 ELSE 1)
        /\ \A e \in OutEdges(a) :
              /\ nstep[a] <= nsent[e] /\ nsent[e] <= nstep[a] + 1
              /\ nsent[e] <= NSteps(a)
              /\ pc[a] = "produce" => nsent[e] = nstep[a]
        /\ ~Live(a) => err[a] \in {"Disconnected", "DropSend"}
        /\ err[a] = "Disconnected" => nstep[a] = NSteps(a)
\* an initiator ended with Disconnected after some complete iterations
C8_Witness ==
    \E a \in Initiators :
        err[a] = "Disconnected" /\ nstep[a] >= 2 /\ nupd[a] = nstep[a] + 1

\* C9: a terminator never sends; it updates (and consumes) once per round in
\* which every input delivered a payload, not in a round in which an input
\* reported Closed, and that round is its last: it ends with DropRecv
C9_Terminator ==
    \A a \in Terminators :
        /\ pc[a] \in {"collect", "exited", "dropped"} /\ OutEdges(a) = {}
        /\ RoundsReceived(a)
        /\ nupd[a] = nstep[a]
        /\ Kind(a) = "logging" => Len(log[a]) = nupd[a] * NIn(a)
        /\ (rerr[a] /\ Live(a)) => idx[a] > 1
        /\ ~Live(a) => /\ err[a] = "DropRecv"
                        /\ \E i \in InEdges(a) : nrecv[i] = nupd[a]
\* a terminator ended on a closed input after complete rounds, while another
\* of its inputs had delivered a payload in the failing round
C9_Witness ==
    \E a \in Terminators :
        /\ err[a] = "DropRecv" /\ nupd[a] >= 1
        /\ \E i \in InEdges(a) : nrecv[i] = nupd[a] + 1

\* the errors that end a task quietly
Graceful == {"DropRecv", "DropSend", "NoData", "Disconnected"}
\* no edge of the graph closes a cycle
FeedForward == \A e \in EdgeIds : ~EdgeOf(e).fb

RECURSIVE IntegratorState(_)
\* Compensator::consume on the k-th (filtered signal, integrator feedback)
CompensatorOut(k) == k * Unit - IntegratorState(k - 1)
\* Integrator::consume: state after k steps (gain 0.5), 0 at the start, which
\* is also the pre-payload
IntegratorState(k) ==
    IF k = 0 THEN 0 ELSE IntegratorState(k - 1) + (CompensatorOut(k) \div 2)
\* the payload of the decimated and upsampled signal: sample Ratio * j held
\* for the j-th group of Ratio steps
HeldSample(k) == Ratio * (((k - 1) \div Ratio) + 1) * Unit
\* the inputs the Logging client of the sink gets in its k-th round
ExpectedRound(g, k) ==
    CASE g = "chain"    -> << k * Unit, k * Unit >>
      [] g = "feedback" -> << CompensatorOut(k), k * Unit >>
      [] g = "mount"    -> << (k - 1) * Unit, 0 >>
      [] g = "rate"     -> << HeldSample(k) >>
      [] g = "m1"       -> << IF k = 1 THEN 0 ELSE HeldSample(k - 1) >>
      [] g = "join"     -> << k * Unit, k * Unit, k * Unit >>
      [] g = "up"       -> << 3 * (((k - 1) \div Ratio) + 1) + 2 >>
      [] g = "down"     -> << 10 * (2 * k - 1) + 10 * (2 * k) >>
      [] g = "loop"     -> << Unit \div Pow2(k - 1) >>
\* the complete rounds of the sink for n payloads of the initiator
ExpectedRounds(g, n) ==
    CASE g = "rate" -> Ratio * (n \div Ratio)
      [] g = "up"   -> Ratio * n
      [] g = "down" -> n \div 2
      [] OTHER      -> n
RECURSIVE ExpectedLog(_, _)
ExpectedLog(g, k) ==
    IF k = 0 THEN << >> ELSE ExpectedLog(g, k - 1) \o ExpectedRound(g, k)
IsPrefix(s, t) == Len(s) <= Len(t) /\ s = SubSeq(t, 1, Len(s))

\* C11: what a terminator has recorded depends on the graph and the clients
\* only, not on the interleaving of the tasks: at any point it is a prefix of
\* the log the dataflow function gives, and at the end of a complete run it
\* is that log
C11_Deterministic ==
    \A t \in Terminators :
        /\ IsPrefix(log[t], ExpectedLog(cfg.g, ExpectedRounds(cfg.g, cfg.n)))
        /\ AllDone => log[t] = ExpectedLog(cfg.g, ExpectedRounds(cfg.g, cfg.n))
\* a run of the feedback graph is complete with three rounds or more recorded
C11_Witness ==
    /\ cfg.g = "feedback" /\ AllDone
    /\ Len(log["sink"]) >= 6
    /\ log["sink"] = ExpectedLog(cfg.g, cfg.n)

\* C12: when produce has returned nothing and the send has returned
\* Disconnected, nothing was sent by that call (every output carries the
\* payloads of the completed iterations only) and every sender of the
\* outputs of the actor is dropped
C12_DisconnectedDropsSenders ==
    \A a \in Actors :
        err[a] = "Disconnected" =>
            \A e \in OutEdges(a) : nsent[e] = nstep[a] * Sends(a) /\ ~tx[e]

\* two senders of one output (fan-out or multiplex)
Siblings(e, f) ==
    e # f /\ EdgeOf(e).src = EdgeOf(f).src /\ EdgeOf(e).out = EdgeOf(f).out
Comparable(s, t) == IsPrefix(s, t) \/ IsPrefix(t, s)

\* the actor is between two sends: its last send returned success
SendReturned(a) == pc[a] \in {"collect", "produce"}

\* C13 (as stated): the senders of one output have carried the same payloads
\* once a send has returned, and when all tasks have ended the inputs they
\* feed have received identical sequences
C13_IdenticalSequences ==
    \A e, f \in EdgeIds :
        Siblings(e, f) =>
            /\ SendReturned(EdgeOf(e).src) => hsent[e] = hsent[f]
            /\ AllDone => hrcvd[e] = hrcvd[f]

\* C13: a send puts the payload the output holds once into the channel of
\* every sender of the output, and the actor goes on only when all of them
\* are served: the senders of one output have carried the same payloads, one
\* payload apart at most while a send is in progress and equal once it has
\* returned success; the payloads received on them agree as far as both go,
\* and are the same sequence when both inputs have received all that was sent
C13_Broadcast ==
    /\ \A a \in Actors : \A e \in OutEdges(a) :
          (SendReturned(a) /\ hsent[e] # << >>)
              => hsent[e][Len(hsent[e])] = odata[a][EdgeOf(e).out]
    /\ \A e, f \in EdgeIds :
          Siblings(e, f) =>
              /\ Comparable(hsent[e], hsent[f])
              /\ Len(hsent[e]) <= Len(hsent[f]) + 1
              /\ SendReturned(EdgeOf(e).src) => hsent[e] = hsent[f]
              /\ Comparable(hrcvd[e], hrcvd[f])
              /\ (q[e] = << >> /\ q[f] = << >> /\ hsent[e] = hsent[f])
                    => hrcvd[e] = hrcvd[f]
\* a multiplexed output has completed three sends or more and both of its
\* inputs have received the same payloads
C13_Witness ==
    \E e, f \in EdgeIds :
        /\ Siblings(e, f)
        /\ pc[EdgeOf(e).src] = "collect"
        /\ Len(hsent[e]) >= 3 /\ hsent[e] = hsent[f]
        /\ Len(hrcvd[e]) >= 2 /\ hrcvd[e] = hrcvd[f]

\* the senders of the output that edge e belongs to
OutputEdges(e) ==
    {f \in EdgeIds : EdgeOf(f).src = EdgeOf(e).src /\ EdgeOf(f).out = EdgeOf(e).out}

\* C14 (as stated): an actor has ended with DropSend only if every receiver
\* of one of its outputs is closed
C14_DropSendWhenAllClosed ==
    \A a \in Actors :
        err[a] = "DropSend" =>
            \E e \in OutEdges(a) : \A f \in OutputEdges(e) : ~rx[f]

\* C14: a send of the step loop reports DropSend exactly when a receiver of
\* the output is closed when its send future completes: an actor that ended
\* with DropSend has a closed receiver and has left its loop with this
\* graceful error, and a send future that completes on a closed receiver
\* makes the send in progress fail
C14_DropSendWhenSomeClosed ==
    /\ [](\A a \in Actors :
            /\ err[a] = "DropSend" =>
                  /\ \E e \in OutEdges(a) : ~rx[e]
                  /\ ~Live(a) /\ err[a] \in Graceful
            /\ serr[a] => pc[a] \in {"boot", "send"})
    /\ [][\A a \in Actors : \A e \in OutEdges(a) :
            (pc[a] = "send" /\ e \in pend[a] /\ e \notin pend'[a])
                => /\ (~rx[e] \/ serr[a]) <=> (serr'[a] \/ err'[a] = "DropSend")
                   /\ (pc'[a] = "exited") <=> (err'[a] = "DropSend")]_vars
\* an actor has ended with DropSend while one receiver of its multiplexed
\* output is closed and another one is still open
C14_Witness ==
    \E e, f \in EdgeIds :
        /\ Siblings(e, f)
        /\ err[EdgeOf(e).src] = "DropSend"
        /\ ~rx[e] /\ rx[f]

\* the step is the completion of the recv the actor is waiting in
RecvStep(a) ==
    /\ pc[a] = "collect"
    /\ <<pc[a], idx[a], nrecv[InEdge(a, idx[a])]>>'
          # <<pc[a], idx[a], nrecv[InEdge(a, idx[a])]>>

C16_ReceivedEqualsSent ==
    \A e \in EdgeIds :
        /\ IsPrefix(hrcvd[e], hsent[e])
        /\ AllDone => hrcvd[e] = hsent[e]

\* C16: on every edge what was sent is what was received followed by what the
\* channel holds, in that order, with no payload duplicated or skipped; what
\* was received is equal to what was sent whenever the channel is empty
C16_Fifo ==
    \A e \in EdgeIds :
        /\ hsent[e] = hrcvd[e] \o q[e]
        /\ Len(hrcvd[e]) = nrecv[e]
        /\ Len(hsent[e]) = nsent[e] + nboot[e]
        /\ q[e] = << >> => hrcvd[e] = hsent[e]
\* all tasks have ended and an edge that carried three payloads or more has
\* one left in the channel of its closed receiver
C16_Witness ==
    /\ AllDone
    /\ \E e \in EdgeIds :
          /\ Len(hrcvd[e]) >= 2 /\ q[e] # << >>
          /\ hsent[e] = hrcvd[e] \o q[e]

\* the senders of the current distribute whose send future has completed
Served(a) == SendEdges(a) \ pend[a]

\* C17 (as stated): within a distribute the send of output j completes before
\* the send of output j+1: no output has completed its send while an output
\* registered before it is still sending
C17_OutputsInOrder ==
    \A a \in Actors :
        pc[a] = "send" =>
            \A e \in pend[a] : \A f \in Served(a) : EdgeOf(f).out <= EdgeOf(e).out

\* C17: within one collect the inputs are received in their registration
\* order, one recv each: a payload is received only on the input the collect
\* has come to, which then moves to the next input, and in a round without a
\* closed input exactly the inputs before that one have received their
\* payload; the sends of one distribute complete in any order and the step
\* goes on only when none is left
C17_InputsInOrder ==
    /\ [](\A a \in Actors :
            /\ (pc[a] = "collect" /\ ~rerr[a]) =>
                  \A e \in InEdges(a) :
                      nrecv[e] = nupd[a] + (IF EdgeOf(e).inp < idx[a] THEN 1 ELSE 0)
            /\ pc[a] \notin {"boot", "send"} => pend[a] = {})
    /\ [][\A a \in Actors : \A e \in InEdges(a) :
            nrecv'[e] # nrecv[e] =>
                /\ pc[a] = "collect" /\ EdgeOf(e).inp = idx[a]
                /\ idx'[a] = (idx[a] % NIn(a)) + 1]_vars
\* the collect of an actor with several inputs has received on its first
\* input and waits on the next, and the second output of another actor has
\* completed its send while the first is still sending
C17_Witness ==
    /\ \E a \in Actors :
          /\ pc[a] = "collect" /\ idx[a] = 2 /\ nupd[a] >= 1
          /\ nrecv[InEdge(a, 1)] = nupd[a] + 1
    /\ \E a \in Actors :
          /\ pc[a] = "send"
          /\ \E e \in pend[a] : \E f \in Served(a) : EdgeOf(f).out > EdgeOf(e).out

\* the number of input payloads the rate ratio assigns to the k-th send of
\* actor a: k for equal rates, k*NO/NI for decimation, the ceiling of k*NO/NI
\* for upsampling
Assigned(a, k) ==
    IF NO(a) >= NI(a) THEN (k * NO(a)) \div NI(a)
    ELSE (k * NO(a) + NI(a) - 1) \div NI(a)

\* C18: for every actor with inputs and outputs and every k >= 1, the k-th
\* send of the step loop on an output happens after the actor has received on
\* every input and consumed the payloads the rate ratio assigns to that send:
\* the k-th for equal rates, the (k*NO/NI)-th for decimation, the
\* ceil(k*NO/NI)-th for upsampling; and it has consumed no later payload
C18_SendAfterConsume ==
    /\ [](\A a \in Actors : (HasInputs(a) /\ HasOutputs(a)) =>
             \A e \in OutEdges(a) : nupd[a] >= Assigned(a, nsent[e]))
    /\ [][\A a \in Actors : (HasInputs(a) /\ HasOutputs(a)) =>
             \A e \in OutEdges(a) : nsent'[e] # nsent[e] =>
                 /\ nsent'[e] = nsent[e] + 1
                 /\ nupd[a] = Assigned(a, nsent'[e])
                 /\ nupd'[a] = nupd[a]
                 /\ \A i \in InEdges(a) : nrecv[i] = nupd[a]]_vars
\* a decimating actor has made its first send after NO/NI payloads, and an
\* upsampling actor its second send after one payload
C18_Witness ==
    /\ \E a \in Actors :
        /\ HasInputs(a) /\ HasOutputs(a) /\ NO(a) > NI(a)
        /\ \E e \in OutEdges(a) : nsent[e] = 1
        /\ nupd[a] = NO(a) \div NI(a)
    /\ \E a \in Actors :
        /\ HasInputs(a) /\ HasOutputs(a) /\ NI(a) > NO(a)
        /\ \E e \in OutEdges(a) : nsent[e] = 2
        /\ nupd[a] = 1

\* the rates of actor a agree with its ports: NI = 0 exactly when it has no
\* inputs, NO = 0 exactly when it has no outputs
Consistent(d, a) ==
    /\ d.rates[a][1] = 0 <=> DeclInputs(d, a) = {}
    /\ d.rates[a][2] = 0 <=> d.outs[a] = 0

\* C19: check() accepts a model only if every actor has NI = 0 exactly when it
\* has no inputs and NO = 0 exactly when it has no outputs; a model with such
\* a fault fails, and the error names an actor for which its kind holds:
\* NoInputsPositiveRate (no inputs, NI > 0), SomeInputsZeroRate (inputs,
\* NI = 0), NoOutputsPositiveRate (no outputs, NO > 0), SomeOutputsZeroRate
\* (outputs, NO = 0), one of these four when every output is connected; a
\* model that failed check() has no actor task
C19_CheckRates ==
    LET d == model.decl
        k == model.error[1]
        a == model.error[2]
        connected == \A b \in Actors : \A o \in 1..d.outs[b] :
                         DeclSenders(d, b, o) # {}
    IN  /\ model.state \in {"ready", "running"} =>
              \A b \in Actors : Consistent(d, b)
        /\ (model.state # "new" /\ \E b \in Actors : ~Consistent(d, b)) =>
              model.state = "failed"
        /\ model.state = "failed" <=> k \in ErrorKinds
        /\ (model.state = "failed" /\ connected) =>
              k # "OrphanOutput" /\ a \in Actors /\ ~Consistent(d, a)
        /\ k = "NoInputsPositiveRate" =>
              DeclInputs(d, a) = {} /\ d.rates[a][1] > 0
        /\ k = "SomeInputsZeroRate" =>
              DeclInputs(d, a) # {} /\ d.rates[a][1] = 0
        /\ k = "NoOutputsPositiveRate" =>
              d.outs[a] = 0 /\ d.rates[a][2] > 0
        /\ k = "SomeOutputsZeroRate" =>
              d.outs[a] > 0 /\ d.rates[a][2] = 0
        /\ model.state = "failed" => model.tasks = {}
        /\ model.tasks # {} => model.state \in {"running", "terminated"}
\* check() has failed on an actor with outputs and NO = 0, no task was started
C19_Witness ==
    /\ model.state = "failed"
    /\ model.error[1] = "SomeOutputsZeroRate"
    /\ model.tasks = {}

\* C20: after a successful check() every declared output of every actor has
\* at least one sender and every input has exactly one upstream output; a
\* model with a declared output that was never connected fails check(), with
\* OrphanOutput naming such an actor when its rates are in order
C20_Connected ==
    LET d == model.decl
        k == model.error[1]
        a == model.error[2]
        orphan(b) == \E o \in 1..d.outs[b] : DeclSenders(d, b, o) = {}
    IN  /\ model.state \in {"ready", "running"} =>
              \A b \in Actors :
                  /\ \A o \in 1..d.outs[b] :
                        Cardinality(DeclSenders(d, b, o)) >= 1
                  /\ \A i \in {EdgeOf(e).inp : e \in DeclInputs(d, b)} :
                        Cardinality({<<EdgeOf(e).src, EdgeOf(e).out>> :
                            e \in {x \in DeclInputs(d, b) :
                                      EdgeOf(x).inp = i}}) = 1
        /\ (model.state # "new" /\ \E b \in Actors : orphan(b)) =>
              model.state = "failed"
        /\ (model.state = "failed" /\ \A b \in Actors : Consistent(d, b)) =>
              k = "OrphanOutput"
        /\ k = "OrphanOutput" => a \in Actors /\ orphan(a)
\* check() has accepted a model with a multiplexed output
C20_Witness ==
    /\ model.state = "ready"
    /\ \E b \in Actors : \E o \in 1..model.decl.outs[b] :
          Cardinality(DeclSenders(model.decl, b, o)) = 2

\* the rates <<NI, NO>> of an actor with inputs and outputs do not divide
\* one another
NonInteger(r) ==
    /\ r[1] > 0 /\ r[2] > 0
    /\ (IF r[1] >= r[2] THEN r[1] % r[2] ELSE r[2] % r[1]) # 0

\* C21: an actor whose rates have a non-integer ratio (max(NI, NO) mod
\* min(NI, NO) # 0) is rejected by the validation and never run: a model that
\* check() has accepted has no such actor, and no task is spawned for one
C21_IntegerRatio ==
    /\ model.state \in {"ready", "running"} =>
          \A a \in Actors : ~NonInteger(model.decl.rates[a])
    /\ \A a \in model.tasks : ~NonInteger(model.decl.rates[a])

C23_Wait ==
    LET res == model.results
        bad(a) == res[a] \in {"NoInputs", "NoOutputs", "NoClient"}
    IN  model.state = "terminated" =>
          /\ model.tasks = Actors
          /\ \A a \in Actors : res[a] # "pending"
          /\ (\A a \in Actors : res[a] \in Graceful) => model.error = NoError
          /\ (\E a \in Actors : bad(a)) =>
                /\ model.error[2] \in Actors
                /\ bad(model.error[2])
                /\ model.error[1] = res[model.error[2]]
                /\ \A b \in Actors :
                      Index(b) < Index(model.error[2]) => ~bad(b)
\* wait() has returned the error of a task that comes after a task that
\* ended with a closure and before another task that ended with an error
C23_Witness ==
    /\ model.state = "terminated"
    /\ \E a, b, c \in Actors :
          /\ Index(a) < Index(b) /\ Index(b) < Index(c)
          /\ model.results[a] = "DropSend"
          /\ model.results[b] = "NoClient"
          /\ model.results[c] = "NoInputs"
          /\ model.error = << "NoClient", b >>

\* the ports of the actor that are executing an operation of its client
Inside == {p \in DOMAIN client.at : client.at[p] = "inside"}

\* C24: at no time do two of the operations consume, update and produce
\* execute on the same client: every port that is calling the client holds
\* its mutex, the outputs whose sends run concurrently in one distribute
\* included, and the mutex has one holder
C24_MutualExclusion ==
    /\ Cardinality(Inside) <= 1
    /\ \A p \in Inside : client.holder = p
    /\ \A p \in DOMAIN client.at :
          client.at[p] = "recv" => client.holder = p
\* one output is calling produce while the send of another output of the
\* same distribute is in flight
C24_Witness ==
    \E p, r \in DOMAIN client.at :
        /\ p[1] = "out" /\ r[1] = "out"
        /\ client.at[p] = "inside" /\ client.at[r] = "send"

\* C25: on a bounded edge of capacity Cap the payloads sent and not yet
\* received are never more than Cap, and a send on a full bounded edge
\* completes only once the consumer has taken a payload or has closed; on an
\* unbounded edge a send never blocks: it can complete as soon as no send
\* created before it in the same join_all can
C25_Backpressure ==
    /\ [](\A e \in EdgeIds : ~Unbounded(e) =>
             /\ Len(q[e]) <= Cap
             /\ Len(hsent[e]) - Len(hrcvd[e]) <= Cap)
    /\ [][\A e \in EdgeIds : (~Unbounded(e) /\ Len(q[e]) >= Cap) =>
             /\ hsent'[e] = hsent[e]
             /\ \A a \in Actors :
                   (pc[a] \in {"boot", "send"} /\ e \in pend[a]
                       /\ e \notin pend'[a]) => ~rx[e]]_vars
    /\ [](\A a \in Actors : \A e \in OutEdges(a) :
             (/\ pc[a] \in {"boot", "send"} /\ e \in pend[a] /\ Unbounded(e)
              /\ \A f \in pend[a] : f < e =>
                    (rx[f] /\ ~Unbounded(f) /\ Len(q[f]) >= Cap))
                 => ENABLED Send(a, e))
\* a producer is suspended in a send on a full bounded edge whose consumer is
\* alive, and an unbounded edge holds more than Cap payloads
C25_Witness ==
    /\ \E a \in Actors : \E e \in pend[a] :
          /\ pc[a] = "send" /\ ~Unbounded(e) /\ rx[e] /\ Len(q[e]) = Cap
          /\ pend[a] = {e}
    /\ \E e \in EdgeIds : Unbounded(e) /\ Len(q[e]) > Cap

\* C26: over any run and for every actor, consume is called as many times as
\* payloads were received on each input (once the task has ended every
\* payload received was consumed), every produce is followed by the sends of
\* one distribute, and update is called exactly once per step: once per
\* round of the inputs for an actor with inputs, once per send round for an
\* initiator
C26_CallCounts ==
    /\ [](\A a \in Actors : pc[a] \in {"exited", "dropped"} =>
             \A e \in InEdges(a) : nrecv[e] = nupd[a])
    /\ [](\A a \in Actors : \A e \in InEdges(a) : nupd[a] <= nrecv[e])
    /\ [][\A a \in Actors : nupd'[a] # nupd[a] =>
             /\ nupd'[a] = nupd[a] + 1
             /\ HasInputs(a) =>
                   /\ pc[a] = "collect" /\ idx[a] = NIn(a) /\ idx'[a] = 1
                   /\ err'[a] = "none"
             /\ ~HasInputs(a) =>
                   /\ pc[a] = "produce"
                   /\ pc'[a] = "send" \/ err'[a] = "Disconnected"]_vars

\* every element of s, k times in succession
Repeated(s, k) == [j \in 1..(k * Len(s)) |-> s[((j - 1) \div k) + 1]]
\* the payloads the step loop has put on edge e, after those of the pre-send
StepSent(e) == SubSeq(hsent[e], nboot[e] + 1, Len(hsent[e]))

\* C27: an upsampling actor with the pass-through Sampler client and rate
\* ratio k = NI/NO emits each payload it has consumed exactly k times in
\* succession before it emits the next one; with a source producing 5, 8 and
\* k = Ratio the terminator has logged 5 k times, then 8 k times
C27_SampleAndHold ==
    /\ \A a \in Actors :
          (Kind(a) = "sampler" /\ NI(a) > NO(a) /\ NIn(a) = 1) =>
              \A i \in InEdges(a) : \A e \in OutEdges(a) :
                  LET k == NI(a) \div NO(a) IN
                  /\ IsPrefix(StepSent(e), Repeated(hrcvd[i], k))
                  /\ (pc[a] = "collect" /\ rx[e]) =>
                        StepSent(e) = Repeated(hrcvd[i], k)
    /\ (cfg.g = "up" /\ cfg.n = 2 /\ AllDone) =>
          log["sink"] = Repeated(<< 5, 8 >>, Ratio)
\* the run of the upsampled signal 5, 8 is complete
C27_Witness ==
    /\ cfg.g = "up" /\ cfg.n = 2 /\ AllDone
    /\ Len(log["sink"]) = 2 * Ratio
    /\ hrcvd[1] = << 5, 8 >>

\* the sum of the elements lo..hi of s
RECURSIVE SumRange(_, _, _)
SumRange(s, lo, hi) == IF lo > hi THEN 0 ELSE s[lo] + SumRange(s, lo + 1, hi)

\* C28: a decimating actor with rate ratio k = NO/NI whose client sums what
\* it consumes emits, for every j >= 1, as its j-th output the sum of the
\* input payloads (j-1)*k+1 .. j*k; with a source producing 10, 20, 30, 40
\* and k = 2 the terminator has logged 30, 70
C28_DecimatedSum ==
    /\ \A a \in Actors :
          (Kind(a) = "adder" /\ NO(a) > NI(a)) =>
              \A i \in InEdges(a) : \A e \in OutEdges(a) :
                  LET k == NO(a) \div NI(a) IN
                  /\ k * Len(StepSent(e)) <= Len(hrcvd[i])
                  /\ \A j \in 1..Len(StepSent(e)) :
                        StepSent(e)[j] =
                            SumRange(hrcvd[i], (j - 1) * k + 1, j * k)
                  /\ (pc[a] = "collect" /\ rx[e]) =>
                        Len(StepSent(e)) = Len(hrcvd[i]) \div k
    /\ (cfg.g = "down" /\ cfg.n = 4 /\ AllDone) => log["sink"] = << 30, 70 >>
\* the run of the decimated signal 10, 20, 30, 40 is complete
C28_Witness ==
    /\ cfg.g = "down" /\ cfg.n = 4 /\ AllDone
    /\ hrcvd[1] = << 10, 20, 30, 40 >>
    /\ Len(log["sink"]) = 2

\* what the logger of the chain has recorded of its first input, the one fed
\* through the identity actor
ViaFilter == [k \in 1..(Len(log["sink"]) \div 2) |-> log["sink"][2 * k - 1]]

\* C29: in the feed-forward chain initiator -> identity actor -> terminator
\* with equal rates, when the initiator has produced S payloads and ended,
\* the terminator has recorded exactly those S payloads, in order, when it
\* exits: nothing that was sent before the shutdown is lost or duplicated
C29_NothingLost ==
    cfg.g = "chain" =>
        /\ IsPrefix(ViaFilter, hsent[1])
        /\ pc["sink"] \in {"exited", "dropped"} =>
              /\ ViaFilter = hsent[1]
              /\ ViaFilter = hsent[2]
              /\ ViaFilter = [k \in 1..cfg.n |-> k * Unit]
              /\ \A e \in EdgeIds : q[e] = << >>
\* the logger of the chain has exited after the longest run
C29_Witness ==
    /\ cfg.g = "chain" /\ cfg.n = NStep
    /\ pc["sink"] = "dropped" /\ err["sink"] = "DropRecv"
    /\ Len(ViaFilter) = NStep

\* the edge from actor a to actor b
EdgeFrom(a, b) ==
    CHOOSE e \in EdgeIds : EdgeOf(e).src = a /\ EdgeOf(e).dst = b

\* C30: in the feedback loop source -> summing actor -> integrator -> back to
\* the summing actor, the integrator output bootstrapped with 0 and the gain
\* 1/2, the n-th residual the summing actor emits is its n-th input minus the
\* state of the integrator after n-1 updates, each feedback value lagging the
\* residual by one step; with the source 1, 1, 1, 1 the first four residuals
\* are 1, 1/2, 1/4, 1/8 (in units of Unit)
C30_Residuals ==
    cfg.g \in {"loop", "feedback"} =>
        LET res  == hsent[EdgeFrom("compensator", "integrator")]
            back == hsent[EdgeFrom("integrator", "compensator")]
            in1  == hrcvd[InEdge("compensator", 1)]
        IN  /\ Len(back) <= Len(res) + 1
            /\ \A n \in 1..Len(res) :
                  /\ n <= Len(in1) /\ n <= Len(back)
                  /\ res[n] = in1[n] - back[n]
            /\ \A n \in 1..Len(back) :
                  back[n] = IF n = 1 THEN 0
                            ELSE back[n - 1] + (res[n - 1] \div 2)
            /\ cfg.g = "loop" =>
                  \A n \in 1..Len(res) : res[n] * Pow2(n - 1) = Unit
\* the summing actor has emitted four residuals of the constant signal
C30_Witness ==
    /\ cfg.g = "loop"
    /\ hsent[EdgeFrom("compensator", "integrator")] =
          << Unit, Unit \div 2, Unit \div 4, Unit \div 8 >>
    /\ Len(hsent[EdgeFrom("integrator", "compensator")]) = 5

\* C31 (as stated): collect on an actor without inputs returns NoInputs and
\* distribute with data on an actor without outputs returns NoOutputs, in
\* both cases without any channel operation and without aborting
C31_NoInputsNoOutputs ==
    [][\A a \in Actors :
          /\ (CallCollect(a) /\ ~HasInputs(a))
                => (call'.result = "NoInputs" /\ UNCHANGED <<q, tx, rx>>)
          /\ \A data \in CallData :
                (CallDistribute(a, data) /\ ~HasOutputs(a))
                    => (call'.result = "NoOutputs" /\ UNCHANGED <<q, tx, rx>>)
      ]_vars

\* the payloads 1, d + 1, 2d + 1, .. of the first n
EveryDth(n, d) == [j \in 1..((n + d - 1) \div d) |-> (j - 1) * d + 1]

\* C32 (as stated): an Arrow logger of decimation factor d records for each
\* of its entries exactly every d-th payload received for that entry (the
\* 1st, the (d+1)-th, ..), whatever the number of entries and the order of
\* arrival
C32_EveryDthPayload ==
    \A e \in 1..arrow.n_entry :
        arrow.kept[e] = EveryDth(arrow.got[e], arrow.decimation)

\* C38 (as stated): the number of rows record() declares for each entry,
\* step / n_entry / decimation, is the number of payloads appended to the
\* buffer of the entry, so the buffer holds rows * capacity values
C38_RowsMatchBuffers ==
    arrow.record # << >> =>
        \A e \in 1..arrow.n_entry :
            /\ arrow.record[1].rows = Len(arrow.kept[e])
            /\ Len(arrow.record[1].values[e]) = arrow.record[1].rows * Capacity(e)

\* C39 (as stated): for the first-order-hold wind loads after stop_after(m),
\* the first update made with step > m does not overflow the step counter,
\* and from then on every write returns None and never a sample again
C39_StopAfter ==
    foh.past =>
        /\ ~foh.wrapped /\ foh.state = "ok"
        /\ foh.out \in {<< "idle" >>, << "None" >>}

\* the outputs of the actor
OutPorts == {p \in DOMAIN client.at : p[1] = "out"}

\* C35: within one distribute every output attempts its send: an output
\* whose produce returned None does not stop the other outputs from producing
\* and sending in that step (each of them can go on as soon as the mutex is
\* free), and the actor returns the error only when the send of every output
\* has returned
C35_AllOutputsSend ==
    /\ client.result = "Disconnected" =>
          /\ client.none # {}
          /\ \A p \in OutPorts : client.at[p] = "done"
    /\ (client.result = "running" /\ client.none # {}) =>
          \A p \in OutPorts :
              /\ (client.at[p] = "idle" /\ Free(client.holder)) => ENABLED Lock(p)
              /\ client.at[p] = "inside" => ENABLED Unlock(p)
              /\ client.at[p] = "send" => ENABLED SendEnd(p)
\* the produce of one output has returned None and a later output of the same
\* distribute is sending its payload
C35_Witness ==
    \E p \in client.none : \E r \in OutPorts :
        /\ p[2] < r[2]
        /\ client.at[r] = "send"
        /\ client.result = "running"

\* C36: the recv of an input takes the mutex of the client before it waits on
\* the channel and holds it until consume has returned, the send of an output
\* has released it when it waits on the channel: while an input is blocked in
\* recv nobody else can take the mutex, while an output is blocked in send
\* the output does not hold it
C36_LockAcrossRecv ==
    \A p \in DOMAIN client.at :
        /\ (p[1] = "in" /\ client.at[p] \in {"recv", "inside"}) => client.holder = p
        /\ client.at[p] = "recv" => \A r \in DOMAIN client.at : ~ENABLED Lock(r)
        /\ client.at[p] = "send" => client.holder # p
\* an output is blocked in send and main has taken the mutex of the client,
\* after an earlier input of the actor went through recv
C36_Witness ==
    \E p \in OutPorts :
        /\ client.at[p] = "send"
        /\ client.holder = Main
        /\ \E r \in DOMAIN client.at : r[1] = "in" /\ client.at[r] = "done"

\* the least number of payloads the step loop of actor a put on one of its
\* channels
MinSent(a) ==
    CHOOSE n \in {nsent[e] : e \in OutEdges(a)} :
        \A e \in OutEdges(a) : n <= nsent[e]

\* C33: when a receiver of an output is dropped while other receivers of the
\* actor are open, the send returns DropSend and the actor exits, yet the
\* payload of that send was delivered to every receiver that is open: an open
\* receiver was sent one payload more than the dropped one, and it finds its
\* channel closed only after it has received that payload
C33_PartialDelivery ==
    \A a \in Actors :
        err[a] = "DropSend" =>
            /\ \E f \in OutEdges(a) : ~rx[f] /\ nsent[f] = MinSent(a)
            /\ \A e \in OutEdges(a) :
                  rx[e] =>
                      /\ nsent[e] = MinSent(a) + 1
                      /\ hsent[e] = hrcvd[e] \o q[e]
                      /\ Closed(e) =>
                            /\ pc[a] = "dropped"
                            /\ nrecv[e] = nboot[e] + MinSent(a) + 1
\* the set point has ended with DropSend on its dropped receiver, and the
\* receiver that is open has taken the payload of that send and now finds the
\* channel closed
C33_Witness ==
    \E e, f \in EdgeIds :
        /\ Siblings(e, f)
        /\ err[EdgeOf(e).src] = "DropSend"
        /\ ~rx[f] /\ rx[e]
        /\ nsent[e] = nsent[f] + 1
        /\ Len(hrcvd[e]) = Len(hsent[e])
        /\ Closed(e)

\* C34: collect calls recv on every input in registration order, also after
\* an earlier input has reported Closed, and returns the first error only
\* when the recv of the last input has returned: an actor with a closed
\* earlier input stays in collect, blocked, while the upstream of a later
\* input is alive and has not sent
C34_CollectVisitsAllInputs ==
    /\ [](\A a \in Actors :
            rerr[a] =>
                /\ pc[a] = "collect" /\ idx[a] > 1 /\ err[a] = "none"
                /\ LET e == InEdge(a, idx[a])
                   IN  (tx[e] /\ q[e] = << >>) => (Live(a) /\ ~ENABLED Recv(a)))
    /\ [][\A a \in Actors :
            pc[a] = "collect" =>
                /\ pc'[a] = "exited" => (idx[a] = NIn(a) /\ err'[a] = "DropRecv")
                /\ (Closed(InEdge(a, idx[a])) /\ idx'[a] # idx[a] /\ idx[a] < NIn(a))
                      => (idx'[a] = idx[a] + 1 /\ rerr'[a] /\ pc'[a] = "collect")]_vars
\* the first input of the sink is closed and the sink waits in the recv of a
\* later input, whose upstream is alive and has not sent
C34_Witness ==
    \E a \in Actors :
        /\ rerr[a] /\ pc[a] = "collect" /\ idx[a] > 1
        /\ hrcvd[InEdge(a, 1)] # << >> /\ Closed(InEdge(a, 1))
        /\ tx[InEdge(a, idx[a])] /\ q[InEdge(a, idx[a])] = << >>
        /\ Live(EdgeOf(InEdge(a, idx[a])).src)

\* C37: when distribute is given fewer values than the actor has outputs, the
\* empty vector included, the outputs beyond the values keep the payload they
\* hold and every output sends the payload it holds; so the Sampler, whose
\* produce yields its data once, has its sample sent again by the later
\* distributes of an upsampling step
C37_OutputsKeepPayload ==
    /\ [][\A a \in Actors :
            (pc[a] = "produce" /\ pc'[a] = "send") =>
                LET new == ProduceVec(a)
                    held == Kind(a) = "sampler" /\ NI(a) > NO(a) /\ rnd[a] >= 1
                IN  /\ \A o \in 1..NOut(a) :
                          odata'[a][o] = IF o <= Len(new) THEN new[o]
                                         ELSE odata[a][o]
                    /\ pend'[a] = OutEdges(a)
                    /\ held => (new = << >> /\ odata'[a] = odata[a])]_vars
    /\ [][\A a \in Actors : \A e \in OutEdges(a) :
            (pc[a] = "send" /\ e \in pend[a] /\ e \notin pend'[a] /\ rx[e])
                => q'[e] = Append(q[e], odata[a][EdgeOf(e).out])]_vars
\* an upsampling Sampler is in a later distribute of its step: produce gave
\* the empty vector and the output is sending the sample it holds
C37_Witness ==
    \E a \in Actors :
        /\ Kind(a) = "sampler" /\ NI(a) > NO(a)
        /\ pc[a] = "send" /\ rnd[a] >= 1 /\ pend[a] = OutEdges(a)
        /\ cval[a] = << >>
        /\ odata[a][1] # 0 /\ odata[a][1] = idata[InEdge(a, 1)]

====
